---- MODULE Spec2Model ----
(***************************************************************************)
(* The agent conversation / tool-execution loop of moltbot-mini:           *)
(* the conversation store (conversationState), run(), resetConversation()  *)
(* and the Gmail tool dispatcher (executeGmailTool / executeToolInternal). *)
(***************************************************************************)
EXTENDS Integers, Sequences, FiniteSets, TLC

\* ------------------------------------------------------------------ bounds
MaxHist == 2        \* largest configured agent.maxHistoryLength explored
MaxToolCalls == 3   \* most tool calls the completion endpoint requests per behaviour
MaxRuns == 2        \* run() invocations explored per behaviour
MaxListed == 2      \* most messages the mail service returns for one listing

\* ------------------------------------------------------------- small sets
Callers == {1}                        \* the (single, awaiting) caller of run()
Runs == {1, 2}                        \* run() invocations that may be in flight at once
UserTexts == {"hello"}                \* userMessage arguments
Absent == "<null>"                    \* a null / undefined content
FallbackResponse == "I was unable to generate a response."
SystemPrompt == "You are a helpful email assistant."
ErrorMessages == {"boom", ""}

\* ------------------------------------------------------------ messages
NoId == 0

UserMsg(text) ==
    [role |-> "user", content |-> text, tool_calls |-> <<>>, tool_call_id |-> NoId]

AssistantMsg(content, calls) ==
    [role |-> "assistant", content |-> content, tool_calls |-> calls, tool_call_id |-> NoId]

ToolMsg(id, content) ==
    [role |-> "tool", content |-> content, tool_calls |-> <<>>, tool_call_id |-> id]

SystemMsg ==
    [role |-> "system", content |-> SystemPrompt, tool_calls |-> <<>>, tool_call_id |-> NoId]

\* ------------------------------------------------------- pure helpers
Max(a, b) == IF a >= b THEN a ELSE b
Min(a, b) == IF a <= b THEN a ELSE b

\* Array.prototype.slice(start) with one argument: a negative start counts from
\* the end and is clamped at 0; -0 is 0, so slice(-0) is the whole array.
Slice(arr, start) ==
    LET len == Len(arr)
        k == IF start < 0 THEN Max(len + start, 0) ELSE Min(start, len)
    IN SubSeq(arr, k + 1, len)

\* A trim that cuts the window one message early and so loses the newest.
TrimHistoryBeforeNewest(msgs, maxHistoryLength) ==
    LET maxHistory == maxHistoryLength * 2
    IN IF Len(msgs) > maxHistory
       THEN SubSeq(msgs, Len(msgs) - maxHistory, Len(msgs) - 1)
       ELSE msgs

\* A run that never trims.
TrimHistoryNever(msgs, maxHistoryLength) == msgs

\* A trim that keeps the oldest entries instead of the newest.
TrimHistoryKeepsOldest(msgs, maxHistoryLength) ==
    LET maxHistory == maxHistoryLength * 2
    IN IF Len(msgs) > maxHistory THEN SubSeq(msgs, 1, maxHistory) ELSE msgs

\* run(): the history trim, lines 139-143.
TrimHistory(msgs, maxHistoryLength) ==
    LET maxHistory == maxHistoryLength * 2
    IN IF Len(msgs) > maxHistory THEN Slice(msgs, 0 - maxHistory) ELSE msgs

\* A run that ignores its reset option.
ResetIfAskedIgnored(history, reset) == history

\* run(): if (options.reset) resetConversation(), lines 125-127.
ResetIfAsked(history, reset) == IF reset THEN <<>> ELSE history

\* A request that carries the system message and the latest message only.
BuildMessagesLatestOnly(history) == <<SystemMsg, history[Len(history)]>>

\* run(): the outbound message list, lines 146-149 and 196-199.
BuildMessages(history) == <<SystemMsg>> \o history

\* A buffer filled at the front.
BufferResultFront(buffer, msg) == <<msg>> \o buffer

\* run(): toolResults.push(...), lines 185-189.
BufferResult(buffer, msg) == Append(buffer, msg)

\* A push that hands over the first buffered tool message only.
PushToolResultsFirstOnly(history, buffer) == history \o SubSeq(buffer, 1, 1)

\* A push that puts the buffered tool messages in front of the history.
PushToolResultsFront(history, buffer) == buffer \o history

\* A push that hands over the buffer back to front.
PushToolResultsReversed(history, buffer) ==
    history \o [i \in 1..Len(buffer) |-> buffer[Len(buffer) + 1 - i]]

\* run(): conversationState.messages.push(...toolResults), line 193.
PushToolResults(history, buffer) == history \o buffer

\* A fallback that only replaces a missing text (?? in place of ||).
FinalTextNullish(content) == IF content = Absent THEN FallbackResponse ELSE content

\* run(): the final response and its push, lines 214-220.
FinalText(content) ==
    IF content = "" \/ content = Absent THEN FallbackResponse ELSE content

\* A final push that stores the answer twice.
PushFinalTwice(history, finalResponse) ==
    history \o <<AssistantMsg(finalResponse, <<>>), AssistantMsg(finalResponse, <<>>)>>

PushFinal(history, finalResponse) == Append(history, AssistantMsg(finalResponse, <<>>))

\* JSON.parse on the argument payloads the model draws.
JsonObject == [kind |-> "object"]
JsonNull == [kind |-> "null"]
JSONParse(text) ==
    CASE text = "{}" -> [ok |-> TRUE, value |-> JsonObject]
      [] text = "null" -> [ok |-> TRUE, value |-> JsonNull]
      [] OTHER -> [ok |-> FALSE, value |-> JsonNull]

\* toolCall.function.arguments || '{}'
ArgumentsOrDefault(text) == IF text = "" \/ text = Absent THEN "{}" ELSE text

\* ------------------------------------------------------- tool dispatcher
KnownTools ==
    {"gmail_list_messages", "gmail_read_message", "gmail_send_message",
     "gmail_archive_message", "gmail_trash_message", "gmail_mark_read",
     "gmail_mark_unread", "gmail_get_unread_count", "gmail_get_thread"}

\* The tools whose branch reads a property of args before calling the service.
ReadsArgs(toolName) == toolName \in KnownTools \ {"gmail_get_unread_count"}

Returned(v) == [kind |-> "return", value |-> v, isError |-> FALSE, message |-> ""]
Thrown(isErr, m) == [kind |-> "throw", value |-> "", isError |-> isErr, message |-> m]

\* What the mail service does when called: it answers, throws an Error, or
\* throws a value that is no Error.
SvcOk(n) == [kind |-> "ok", message |-> "", count |-> n]
SvcError(m) == [kind |-> "error", message |-> m, count |-> 0]
SvcThrowsValue == [kind |-> "value", message |-> "", count |-> 0]

ToolOutput(toolName, svc) ==
    CASE toolName = "gmail_list_messages" -> "No emails found matching your criteria."
      [] toolName = "gmail_read_message" -> "From: a@example.com"
      [] toolName = "gmail_send_message" -> "Email sent successfully."
      [] toolName = "gmail_archive_message" -> "Email has been archived (removed from inbox)."
      [] toolName = "gmail_trash_message" -> "Email has been moved to trash."
      [] toolName = "gmail_mark_read" -> "Email marked as read."
      [] toolName = "gmail_mark_unread" -> "Email marked as unread."
      [] toolName = "gmail_get_unread_count" ->
            "You have " \o ToString(svc.count) \o " unread email"
                \o (IF svc.count # 1 THEN "s" ELSE "") \o " in your inbox."
      [] toolName = "gmail_get_thread" -> "Thread not found or contains no messages."

executeToolInternal(toolName, args, svc) ==
    IF toolName \notin KnownTools
    THEN Returned("Unknown tool: " \o toolName)
    ELSE IF ReadsArgs(toolName) /\ args.kind = "null"
    THEN Thrown(TRUE, "Cannot read properties of null")
    ELSE CASE svc.kind = "ok" -> Returned(ToolOutput(toolName, svc))
           [] svc.kind = "error" -> Thrown(TRUE, svc.message)
           [] svc.kind = "value" -> Thrown(FALSE, "")

\* The gmail.* operations one executeToolInternal call invokes: the one of the
\* branch taken, unless reading args threw first; the default branch has none.
ServiceCalls(toolName, args) ==
    IF toolName \in KnownTools /\ ~(ReadsArgs(toolName) /\ args.kind = "null")
    THEN 1 ELSE 0

\* The gmail.* operation of each branch, lines 278-360.
ServiceOp(toolName) ==
    CASE toolName = "gmail_list_messages" -> "listMessages"
      [] toolName = "gmail_read_message" -> "getMessage"
      [] toolName = "gmail_send_message" -> "sendMessage"
      [] toolName = "gmail_archive_message" -> "archiveMessage"
      [] toolName = "gmail_trash_message" -> "trashMessage"
      [] toolName = "gmail_mark_read" -> "markAsRead"
      [] toolName = "gmail_mark_unread" -> "markAsUnread"
      [] toolName = "gmail_get_unread_count" -> "getUnreadCount"
      [] toolName = "gmail_get_thread" -> "getThread"
      [] OTHER -> "none"

\* A dispatcher that calls the mail service again when the operation failed.
InvocationsWithRetry(call, args, svc) ==
    LET one == [id |-> call.id, op |-> ServiceOp(call.name), ok |-> svc.kind = "ok"]
    IN IF ServiceCalls(call.name, args) = 0 THEN <<>>
       ELSE IF svc.kind = "ok" THEN <<one>> ELSE <<one, one>>

\* The mail-service invocations of one executeGmailTool call made for tool
\* call `call`, lines 183 and 249-264: the single operation of the branch
\* taken, whether it answers or throws.
Invocations(call, args, svc) ==
    [i \in 1..ServiceCalls(call.name, args) |->
        [id |-> call.id, op |-> ServiceOp(call.name), ok |-> svc.kind = "ok"]]

ToolResultOk(output) == [success |-> TRUE, output |-> output, error |-> Absent]
\* A failure result whose output is the bare message.
ToolResultFailedNoPrefix(m) == [success |-> FALSE, output |-> m, error |-> m]

ToolResultFailed(m) == [success |-> FALSE, output |-> "Error: " \o m, error |-> m]

\* A dispatcher whose catch lets a thrown non-Error value through.
executeGmailToolRethrows(toolName, args, svc) ==
    LET inner == executeToolInternal(toolName, args, svc)
    IN IF inner.kind = "return"
       THEN [kind |-> "return", result |-> ToolResultOk(inner.value)]
       ELSE IF inner.isError
       THEN [kind |-> "return", result |-> ToolResultFailed(inner.message)]
       ELSE [kind |-> "throw", result |-> ToolResultFailed("Unknown error")]

\* executeGmailTool, lines 249-264: "result" is the ToolResult, "kind" says
\* whether the call returned it or threw.
executeGmailTool(toolName, args, svc) ==
    LET inner == executeToolInternal(toolName, args, svc)
    IN IF inner.kind = "return"
       THEN [kind |-> "return", result |-> ToolResultOk(inner.value)]
       ELSE LET message == IF inner.isError THEN inner.message ELSE "Unknown error"
            IN [kind |-> "return", result |-> ToolResultFailed(message)]

\* ------------------------------------------------------------ tool catalog
\* GMAIL_TOOLS, lines 393-568: the declared functions, in order.
GMAIL_TOOLS ==
    <<[type |-> "function", name |-> "gmail_list_messages"],
      [type |-> "function", name |-> "gmail_read_message"],
      [type |-> "function", name |-> "gmail_send_message"],
      [type |-> "function", name |-> "gmail_archive_message"],
      [type |-> "function", name |-> "gmail_trash_message"],
      [type |-> "function", name |-> "gmail_mark_read"],
      [type |-> "function", name |-> "gmail_mark_unread"],
      [type |-> "function", name |-> "gmail_get_unread_count"],
      [type |-> "function", name |-> "gmail_get_thread"]>>

\* getToolNames(), lines 580-582.
getToolNames == [i \in 1..Len(GMAIL_TOOLS) |-> GMAIL_TOOLS[i].name]

\* Array.prototype.find with no match.
Undefined == [type |-> "undefined", name |-> ""]

\* String.prototype.toLowerCase on the names the model passes around.
ToLowerCase(name) ==
    IF name = "gmail_Get_Unread_Count" THEN "gmail_get_unread_count" ELSE name

\* A lookup that ignores the case of the name.
getToolByNameIgnoringCase(name) ==
    LET hits == {i \in 1..Len(GMAIL_TOOLS) : GMAIL_TOOLS[i].name = ToLowerCase(name)}
    IN IF hits = {} THEN Undefined
       ELSE GMAIL_TOOLS[CHOOSE i \in hits : \A j \in hits : i <= j]

\* getToolByName(name), lines 573-575: the first tool whose name === name.
getToolByName(name) ==
    LET hits == {i \in 1..Len(GMAIL_TOOLS) : GMAIL_TOOLS[i].name = name}
    IN IF hits = {} THEN Undefined
       ELSE GMAIL_TOOLS[CHOOSE i \in hits : \A j \in hits : i <= j]

\* What accompanies the message list of a completion request, lines 157-158
\* and 206-207.
CreateParams == [tools |-> GMAIL_TOOLS, tool_choice |-> "auto"]
NoParams == [tools |-> <<>>, tool_choice |-> ""]

\* ------------------------------------------------------------------ state
VARIABLES
    messages,         \* conversationState.messages
    config,           \* loadConfig(): [maxHistoryLength]
    pc,               \* per caller: where its run() stands
    request,          \* per caller: the message list of the last completion request
    assistantMessage, \* per caller: response.choices[0]?.message
    toolResults,      \* per caller: the toolResults buffer of the current round
    toolResult,       \* per caller: the ToolResult of the last executeGmailTool call
    idx,              \* per caller: position of the for loop in tool_calls
    toolCallCount,    \* per caller: toolCallCount
    result,           \* per caller: the RunResult returned
    error,            \* per caller: what run() threw
    nRequests,        \* per caller: completion requests issued by this run
    preTrim,          \* per caller: the history right after the user message was pushed
    baseLen,          \* per caller: the history length right after the trim
    dispatched,       \* per caller: call ids handed to executeGmailTool, in order
    completed,        \* per caller: ToolResults the dispatcher returned to this run
    requested,        \* per caller: tool calls requested by the responses of this run
    runsStarted,      \* run() invocations so far
    callsRequested,   \* tool calls requested so far, over all runs
    dispatchIn,       \* a direct executeGmailTool call: [toolName, args, svc]
    dispatchOut,      \* what that call gave: nothing yet, a ToolResult, or a throw
    snapshot,         \* the object a getConversationState() call handed out
    options,          \* per caller: options.reset of run(), kept until its first
                      \* completion settles
    params,           \* per caller: tools and tool_choice of the last completion request
    invoked,          \* per caller: the mail-service operations this run invoked, in order
    chat,             \* interactiveChat: where promptUser stands and what it printed last
    entry             \* how the last run() was reached: directly, by query() or by
                      \* the ask command, and the reset option or flag given there

vars == <<messages, config, pc, request, assistantMessage, toolResults, toolResult, idx,
          toolCallCount, result, error, nRequests, preTrim, baseLen, dispatched,
          completed, requested, runsStarted, callsRequested, dispatchIn, dispatchOut,
          snapshot, options, params, invoked, chat, entry>>

cvars == <<chat, entry>>

dvars == <<dispatchIn, dispatchOut>>

locals == <<request, assistantMessage, toolResults, toolResult, idx, toolCallCount, result,
            error, nRequests, preTrim, baseLen, dispatched, completed, requested,
            options, params, invoked>>

NoDispatch == [toolName |-> "", args |-> JsonObject, svc |-> SvcOk(0)]
NoOutcome == [kind |-> "none", result |-> ToolResultOk("")]

\* response.choices[0]?.message when the response has no choice: undefined,
\* so that its content and its tool_calls read as undefined too.
NoMessage == [choice |-> FALSE, content |-> Absent, tool_calls |-> <<>>]
NoToolResult == ToolResultOk("")
NoResult == [response |-> Absent, toolCalls |-> 0]
NoOptions == [reset |-> FALSE]
NoEntry == [via |-> "run", given |-> FALSE]

\* interactiveChat() right after its first promptUser() call: the question is
\* out and nothing has been answered.
NoChat == [at |-> "prompt", run |-> 1, shown |-> "none"]

\* No snapshot handed out yet. A snapshot's `messages` field is a reference:
\* while `aliased`, it is the very array the store holds and reads as the
\* store's history; once the store has replaced its array, it is the old array,
\* whose content is `list`. `atTake` remembers the content at the call and
\* `edited` that the holder has changed its list.
NoSnapshot ==
    [taken |-> FALSE, aliased |-> FALSE, list |-> <<>>, atTake |-> <<>>, edited |-> FALSE]

\* snapshot.messages as its holder reads it.
SnapshotMessages == IF snapshot.aliased THEN messages ELSE snapshot.list

\* The store assigns a new array to conversationState.messages (lines 100-104
\* and 137): a snapshot that shared the old array keeps it, content `old`.
StoreReplacesArray(snap, old) ==
    IF snap.aliased THEN [snap EXCEPT !.aliased = FALSE, !.list = old] ELSE snap

Init ==
    /\ messages = <<>>
    /\ config \in [maxHistoryLength : 1..MaxHist]
    /\ pc = [r \in Runs |-> "idle"]
    /\ request = [r \in Runs |-> <<>>]
    /\ assistantMessage = [r \in Runs |-> NoMessage]
    /\ toolResults = [r \in Runs |-> <<>>]
    /\ toolResult = [r \in Runs |-> NoToolResult]
    /\ idx = [r \in Runs |-> 0]
    /\ toolCallCount = [r \in Runs |-> 0]
    /\ result = [r \in Runs |-> NoResult]
    /\ error = [r \in Runs |-> "none"]
    /\ nRequests = [r \in Runs |-> 0]
    /\ preTrim = [r \in Runs |-> <<>>]
    /\ baseLen = [r \in Runs |-> 0]
    /\ dispatched = [r \in Runs |-> <<>>]
    /\ completed = [r \in Runs |-> 0]
    /\ requested = [r \in Runs |-> 0]
    /\ runsStarted = 0
    /\ callsRequested = 0
    /\ dispatchIn = NoDispatch
    /\ dispatchOut = NoOutcome
    /\ snapshot = NoSnapshot
    /\ options = [r \in Runs |-> NoOptions]
    /\ params = [r \in Runs |-> NoParams]
    /\ invoked = [r \in Runs |-> <<>>]
    /\ chat = NoChat
    /\ entry = NoEntry

Resting == {"idle", "returned", "threw"}
NoRunActive == \A r \in Callers : pc[r] \in Resting

\* ------------------------------------------------- the environment of run()
\* What a completion response may ask for: a tool with a side effect and a
\* well-formed (empty) payload, or a tool with a payload that is no JSON.
RunCallKinds ==
    {[name |-> "gmail_archive_message", arguments |-> ""],
     [name |-> "gmail_trash_message", arguments |-> "{bad"]}

\* The completion endpoint gives every call of a run its own id.
WithIds(kinds, base) ==
    [i \in 1..Len(kinds) |->
        [id |-> base + i, name |-> kinds[i].name, arguments |-> kinds[i].arguments]]

CallSeqs(n) == UNION {[1..k -> RunCallKinds] : k \in 1..n}

FinalContents == {"You have 3 unread emails.", "", Absent}

\* The assistant messages a completion may answer with while `left` more tool
\* calls may be requested; ids continue after `base`.
Responses(left, base) ==
    {[choice |-> TRUE, content |-> Absent, tool_calls |-> WithIds(kinds, base)] :
        kinds \in CallSeqs(left)}
        \cup {[choice |-> TRUE, content |-> c, tool_calls |-> <<>>] : c \in FinalContents}
        \cup {NoMessage}

RunSvcOutcomes == {SvcOk(3), SvcError("boom")}
StartFailures == {"NoApiKey", "InvalidConfig"}

\* ---------------------------------------------------------------- actions
\* resetConversation(), lines 99-105, called by the caller between two runs;
\* the caller has then left the outcome of its last run behind.
ResetConversation ==
    /\ UNCHANGED <<dvars, cvars>>
    /\ NoRunActive
    /\ messages' = <<>>
    /\ snapshot' = StoreReplacesArray(snapshot, messages)
    /\ pc' = [r \in Runs |-> "idle"]
    /\ UNCHANGED <<config, locals, runsStarted, callsRequested>>

\* A run() that refuses to start while another invocation is in flight.
RunAdmitsWhenIdle(r) == \A q \in Runs : pc[q] \in Resting

\* What run() asks of the store's other users before it starts, lines 124-130:
\* nothing. Invocation r itself has not begun or is over.
RunAdmits(r) == pc[r] \in Resting

\* run() up to the first await, lines 125-159.
RunBegin(r, text, reset) ==
    /\ UNCHANGED dvars
    /\ RunAdmits(r)
    /\ runsStarted < MaxRuns
    /\ LET cleared == ResetIfAsked(messages, reset)
           pushed == Append(cleared, UserMsg(text))
           trimmed == TrimHistory(pushed, config.maxHistoryLength)
       IN /\ messages' = trimmed
          /\ preTrim' = [preTrim EXCEPT ![r] = pushed]
          /\ baseLen' = [baseLen EXCEPT ![r] = Len(trimmed)]
          /\ request' = [request EXCEPT ![r] = BuildMessages(trimmed)]
          /\ snapshot' = IF reset THEN StoreReplacesArray(snapshot, messages)
                         ELSE IF Len(pushed) > 2 * config.maxHistoryLength
                              THEN StoreReplacesArray(snapshot, pushed)
                              ELSE snapshot
    /\ pc' = [pc EXCEPT ![r] = "await"]
    /\ options' = [options EXCEPT ![r] = [reset |-> reset]]
    /\ params' = [params EXCEPT ![r] = CreateParams]
    /\ invoked' = [invoked EXCEPT ![r] = <<>>]
    /\ nRequests' = [nRequests EXCEPT ![r] = 1]
    /\ assistantMessage' = [assistantMessage EXCEPT ![r] = NoMessage]
    /\ toolResults' = [toolResults EXCEPT ![r] = <<>>]
    /\ toolResult' = [toolResult EXCEPT ![r] = NoToolResult]
    /\ idx' = [idx EXCEPT ![r] = 0]
    /\ toolCallCount' = [toolCallCount EXCEPT ![r] = 0]
    /\ result' = [result EXCEPT ![r] = NoResult]
    /\ error' = [error EXCEPT ![r] = "none"]
    /\ dispatched' = [dispatched EXCEPT ![r] = <<>>]
    /\ completed' = [completed EXCEPT ![r] = 0]
    /\ requested' = [requested EXCEPT ![r] = 0]
    /\ runsStarted' = runsStarted + 1
    /\ UNCHANGED <<config, callsRequested>>

\* run() called by the caller that awaits every call before its next one.
RunStart(r, text, reset) == NoRunActive /\ RunBegin(r, text, reset) /\ UNCHANGED cvars

\* run() when createClient() (lines 78-86) or loadConfig() throws, lines 125-130.
RunBeginThrows(r, reset, why) ==
    /\ UNCHANGED dvars
    /\ RunAdmits(r)
    /\ runsStarted < MaxRuns
    /\ messages' = ResetIfAsked(messages, reset)
    /\ snapshot' = IF reset THEN StoreReplacesArray(snapshot, messages) ELSE snapshot
    /\ pc' = [pc EXCEPT ![r] = "threw"]
    /\ options' = [options EXCEPT ![r] = NoOptions]
    /\ params' = [params EXCEPT ![r] = NoParams]
    /\ invoked' = [invoked EXCEPT ![r] = <<>>]
    /\ error' = [error EXCEPT ![r] = why]
    /\ nRequests' = [nRequests EXCEPT ![r] = 0]
    /\ preTrim' = [preTrim EXCEPT ![r] = <<>>]
    /\ baseLen' = [baseLen EXCEPT ![r] = 0]
    /\ request' = [request EXCEPT ![r] = <<>>]
    /\ assistantMessage' = [assistantMessage EXCEPT ![r] = NoMessage]
    /\ toolResults' = [toolResults EXCEPT ![r] = <<>>]
    /\ toolResult' = [toolResult EXCEPT ![r] = NoToolResult]
    /\ idx' = [idx EXCEPT ![r] = 0]
    /\ toolCallCount' = [toolCallCount EXCEPT ![r] = 0]
    /\ result' = [result EXCEPT ![r] = NoResult]
    /\ dispatched' = [dispatched EXCEPT ![r] = <<>>]
    /\ completed' = [completed EXCEPT ![r] = 0]
    /\ requested' = [requested EXCEPT ![r] = 0]
    /\ runsStarted' = runsStarted + 1
    /\ UNCHANGED <<config, callsRequested>>

\* The failing run() called by the caller that awaits every call.
RunStartThrows(r, reset, why) ==
    NoRunActive /\ RunBeginThrows(r, reset, why) /\ UNCHANGED cvars

\* A failure handler that removes what the run appended.
CompletionFailsRollsBack(r) ==
    /\ UNCHANGED <<dvars, cvars>>
    /\ pc[r] = "await"
    /\ pc' = [pc EXCEPT ![r] = "threw"]
    /\ options' = [options EXCEPT ![r] = NoOptions]
    /\ error' = [error EXCEPT ![r] = "CompletionError"]
    /\ messages' = SubSeq(messages, 1, baseLen[r] - 1)
    /\ UNCHANGED <<config, request, assistantMessage, toolResults, toolResult, idx,
                   toolCallCount, result, nRequests, preTrim, baseLen, dispatched,
                   completed, requested, runsStarted, callsRequested, snapshot, params,
                   invoked>>

\* client.chat.completions.create rejects, lines 152 and 201: nothing catches it.
CompletionFails(r) ==
    /\ UNCHANGED <<dvars, cvars>>
    /\ pc[r] = "await"
    /\ pc' = [pc EXCEPT ![r] = "threw"]
    /\ options' = [options EXCEPT ![r] = NoOptions]
    /\ error' = [error EXCEPT ![r] = "CompletionError"]
    /\ UNCHANGED <<messages, config, request, assistantMessage, toolResults, toolResult,
                   idx, toolCallCount, result, nRequests, preTrim, baseLen, dispatched,
                   completed, requested, runsStarted, callsRequested, snapshot, params,
                   invoked>>

\* One pass of the for loop up to its await, lines 176-183: parse the payload
\* of call i, count it, and hand it to the dispatcher.
ForLoopEnter(r, calls, i) ==
    LET parsed == JSONParse(ArgumentsOrDefault(calls[i].arguments))
    IN /\ idx' = [idx EXCEPT ![r] = i]
       /\ IF parsed.ok
          THEN /\ toolCallCount' = [toolCallCount EXCEPT ![r] = @ + 1]
               /\ dispatched' = [dispatched EXCEPT ![r] = Append(@, calls[i].id)]
               /\ pc' = [pc EXCEPT ![r] = "tool"]
               /\ error' = error
          ELSE /\ pc' = [pc EXCEPT ![r] = "threw"]
               /\ error' = [error EXCEPT ![r] = "SyntaxError"]
               /\ UNCHANGED <<toolCallCount, dispatched>>

\* A loop that gives up after its first tool round.
WhileConditionCapped(r, msg) == Len(msg.tool_calls) > 0 /\ nRequests[r] < 2

\* The while condition, line 165.
WhileCondition(r, msg) == Len(msg.tool_calls) > 0

\* A result that counts tool rounds instead of tool calls.
RunResultCountsRounds(r, finalResponse) ==
    [response |-> finalResponse, toolCalls |-> nRequests[r] - 1]

\* The RunResult, lines 223-227.
RunResultOf(r, finalResponse) ==
    [response |-> finalResponse, toolCalls |-> toolCallCount[r]]

\* The response carries tool calls, lines 161-183: push the assistant message
\* and enter the for loop.
ToolCallsResponse(r) ==
    /\ UNCHANGED <<dvars, cvars>>
    /\ pc[r] = "await"
    /\ \E msg \in Responses(MaxToolCalls - callsRequested, requested[r]) :
          /\ WhileCondition(r, msg)
          /\ options' = [options EXCEPT ![r] = NoOptions]
          /\ assistantMessage' = [assistantMessage EXCEPT ![r] = msg]
          /\ messages' = Append(messages, AssistantMsg(msg.content, msg.tool_calls))
          /\ requested' = [requested EXCEPT ![r] = @ + Len(msg.tool_calls)]
          /\ callsRequested' = callsRequested + Len(msg.tool_calls)
          /\ toolResults' = [toolResults EXCEPT ![r] = <<>>]
          /\ ForLoopEnter(r, msg.tool_calls, 1)
    /\ UNCHANGED <<config, request, result, nRequests, preTrim, baseLen, completed,
                   runsStarted, toolResult, snapshot, params, invoked>>

\* The response ends the loop, lines 161-165 and 213-227.
FinalResponse(r) ==
    /\ UNCHANGED <<dvars, cvars>>
    /\ pc[r] = "await"
    /\ \E msg \in Responses(MaxToolCalls - callsRequested, requested[r]) :
          /\ ~WhileCondition(r, msg)
          /\ options' = [options EXCEPT ![r] = NoOptions]
          /\ assistantMessage' = [assistantMessage EXCEPT ![r] = msg]
          /\ messages' = PushFinal(messages, FinalText(msg.content))
          /\ result' = [result EXCEPT ![r] = RunResultOf(r, FinalText(msg.content))]
    /\ pc' = [pc EXCEPT ![r] = "returned"]
    /\ UNCHANGED <<config, request, toolResults, toolResult, idx, toolCallCount, error, nRequests,
                   preTrim, baseLen, dispatched, completed, requested, runsStarted,
                   callsRequested, snapshot, params, invoked>>

\* executeGmailTool settles, lines 183-208: buffer its tool message, then either
\* go on with the next call or push the buffer and send the next request.
ToolReturns(r) ==
    /\ UNCHANGED <<dvars, cvars>>
    /\ pc[r] = "tool"
    /\ \E svc \in RunSvcOutcomes :
          LET calls == assistantMessage[r].tool_calls
              call == calls[idx[r]]
              args == JSONParse(ArgumentsOrDefault(call.arguments)).value
              out == executeGmailTool(call.name, args, svc)
              buffer == BufferResult(toolResults[r], ToolMsg(call.id, out.result.output))
          IN IF out.kind # "return"
             THEN /\ pc' = [pc EXCEPT ![r] = "threw"]
                  /\ error' = [error EXCEPT ![r] = "ToolError"]
                  /\ UNCHANGED <<messages, request, toolResults, toolResult, idx,
                                 toolCallCount, nRequests, dispatched, completed, params,
                                 invoked>>
             ELSE /\ completed' = [completed EXCEPT ![r] = @ + 1]
                  /\ invoked' = [invoked EXCEPT ![r] = @ \o Invocations(call, args, svc)]
                  /\ toolResult' = [toolResult EXCEPT ![r] = out.result]
                  /\ IF idx[r] < Len(calls)
                     THEN /\ toolResults' = [toolResults EXCEPT ![r] = buffer]
                          /\ ForLoopEnter(r, calls, idx[r] + 1)
                          /\ UNCHANGED <<messages, request, nRequests, params>>
                     ELSE /\ toolResults' = [toolResults EXCEPT ![r] = buffer]
                          /\ messages' = PushToolResults(messages, buffer)
                          /\ request' = [request EXCEPT ![r] =
                                 BuildMessages(PushToolResults(messages, buffer))]
                          /\ params' = [params EXCEPT ![r] = CreateParams]
                          /\ nRequests' = [nRequests EXCEPT ![r] = @ + 1]
                          /\ pc' = [pc EXCEPT ![r] = "await"]
                          /\ UNCHANGED <<idx, toolCallCount, dispatched, error>>
    /\ UNCHANGED <<config, assistantMessage, result, preTrim, baseLen, requested,
                   runsStarted, callsRequested, snapshot, options>>

Next ==
    \/ ResetConversation
    \/ \E r \in Callers, text \in UserTexts, reset \in BOOLEAN : RunStart(r, text, reset)
    \/ \E r \in Callers, reset \in BOOLEAN, why \in StartFailures :
          RunStartThrows(r, reset, why)
    \/ \E r \in Callers : CompletionFails(r)
    \/ \E r \in Callers : ToolCallsResponse(r)
    \/ \E r \in Callers : FinalResponse(r)
    \/ \E r \in Callers : ToolReturns(r)

Spec == Init /\ [][Next]_vars

\* ------------------------------------------- the dispatcher called directly
ToolNames ==
    KnownTools \cup {getToolNames[i] : i \in 1..Len(getToolNames)}
        \cup {"gmail_Get_Unread_Count", "no_such_tool"}
ArgValues == {JsonObject, JsonNull}
SvcOutcomes ==
    {SvcOk(0), SvcOk(1), SvcOk(3), SvcThrowsValue} \cup {SvcError(m) : m \in ErrorMessages}

InitDispatch ==
    /\ messages = <<>>
    /\ config = [maxHistoryLength |-> 1]
    /\ pc = [r \in Runs |-> "idle"]
    /\ request = [r \in Runs |-> <<>>]
    /\ assistantMessage = [r \in Runs |-> NoMessage]
    /\ toolResults = [r \in Runs |-> <<>>]
    /\ toolResult = [r \in Runs |-> NoToolResult]
    /\ idx = [r \in Runs |-> 0]
    /\ toolCallCount = [r \in Runs |-> 0]
    /\ result = [r \in Runs |-> NoResult]
    /\ error = [r \in Runs |-> "none"]
    /\ nRequests = [r \in Runs |-> 0]
    /\ preTrim = [r \in Runs |-> <<>>]
    /\ baseLen = [r \in Runs |-> 0]
    /\ dispatched = [r \in Runs |-> <<>>]
    /\ completed = [r \in Runs |-> 0]
    /\ requested = [r \in Runs |-> 0]
    /\ runsStarted = 0
    /\ callsRequested = 0
    /\ dispatchIn \in [toolName : ToolNames, args : ArgValues, svc : SvcOutcomes]
    /\ dispatchOut = NoOutcome
    /\ snapshot = NoSnapshot
    /\ options = [r \in Runs |-> NoOptions]
    /\ params = [r \in Runs |-> NoParams]
    /\ invoked = [r \in Runs |-> <<>>]
    /\ chat = NoChat
    /\ entry = NoEntry

\* await executeGmailTool(toolName, args), lines 249-264.
Dispatch ==
    /\ dispatchOut.kind = "none"
    /\ dispatchOut' = executeGmailTool(dispatchIn.toolName, dispatchIn.args, dispatchIn.svc)
    /\ UNCHANGED <<messages, config, pc, locals, runsStarted, callsRequested, dispatchIn,
                   snapshot, cvars>>

NextDispatch == Dispatch

SpecDispatch == InitDispatch /\ [][NextDispatch]_vars

\* -------------------------------------------- the store seen through a snapshot
\* getConversationState(), lines 117-119: { ...conversationState } copies the
\* fields of the state object, so the copy's `messages` is the store's array.
GetConversationState ==
    /\ NoRunActive
    /\ ~snapshot.taken
    /\ snapshot' = [taken |-> TRUE, aliased |-> TRUE, list |-> <<>>,
                    atTake |-> messages, edited |-> FALSE]
    /\ UNCHANGED <<messages, config, pc, locals, runsStarted, callsRequested, dvars, cvars>>

\* What the holder of a snapshot does to snapshot.messages.
ListOps == {"push", "splice"}
ListEdit(list, op) ==
    IF op = "push" THEN Append(list, UserMsg("injected")) ELSE <<>>

\* The holder edits snapshot.messages in place: the edit lands in whatever
\* array the field refers to.
SnapshotEdit(op) ==
    /\ NoRunActive
    /\ snapshot.taken
    /\ ~snapshot.edited
    /\ IF snapshot.aliased
       THEN /\ messages' = ListEdit(messages, op)
            /\ snapshot' = [snapshot EXCEPT !.edited = TRUE]
       ELSE /\ messages' = messages
            /\ snapshot' = [snapshot EXCEPT !.edited = TRUE,
                                            !.list = ListEdit(snapshot.list, op)]
    /\ UNCHANGED <<config, pc, locals, runsStarted, callsRequested, dvars, cvars>>

NextSnapshot ==
    \/ Next
    \/ GetConversationState
    \/ \E op \in ListOps : SnapshotEdit(op)

SpecSnapshot == Init /\ [][NextSnapshot]_vars

\* ------------------------------------------------ overlapping invocations
\* run() called again while an earlier call is suspended at an await: the
\* steps of the two invocations interleave at their awaits. The invocation of
\* the awaiting caller is followed to its end, the other one up to its first
\* completion request, which stays pending or fails.
\* Each of the invocations in Runs is made once.
RunOverlapping(r, text, reset) ==
    pc[r] = "idle" /\ RunBegin(r, text, reset) /\ UNCHANGED cvars

NextOverlap ==
    \/ \E r \in Runs, text \in UserTexts, reset \in BOOLEAN :
          RunOverlapping(r, text, reset)
    \/ \E r \in Runs : CompletionFails(r)
    \/ \E r \in Callers : ToolCallsResponse(r)
    \/ \E r \in Callers : FinalResponse(r)
    \/ \E r \in Callers : ToolReturns(r)

SpecOverlap == Init /\ [][NextOverlap]_vars

\* ------------------------------------------------------ the interactive chat
\* A chat that calls run() without awaiting it.
AwaitSkipped(r) == TRUE

\* `await run(trimmed)`, part_002 line 162: the callback goes on when the
\* promise of invocation r has resolved or rejected.
AwaitSettled(r) == pc[r] \in {"returned", "threw"}

\* The invocation a new run() call is: the lowest one not in flight.
NextRun(r) == pc[r] \in Resting /\ \A q \in Runs : pc[q] \in Resting => r <= q

\* The user answers the prompt with a message, part_002 lines 113-162: run() is
\* called with no options and the callback suspends at the await.
ChatMessage(text) ==
    /\ chat.at = "prompt"
    /\ \E r \in Runs :
          /\ NextRun(r)
          /\ \/ RunBegin(r, text, FALSE)
             \/ \E why \in StartFailures : RunBeginThrows(r, FALSE, why)
          /\ chat' = [at |-> "running", run |-> r, shown |-> chat.shown]
          /\ UNCHANGED entry

\* The user answers the prompt with /reset, part_002 lines 131-136.
ChatReset ==
    /\ chat.at = "prompt"
    /\ messages' = <<>>
    /\ snapshot' = StoreReplacesArray(snapshot, messages)
    /\ chat' = [chat EXCEPT !.shown = "reset"]
    /\ UNCHANGED <<config, pc, locals, runsStarted, callsRequested, dvars, entry>>

\* The callback resumes after the await, part_002 lines 162-173: it prints the
\* response or, in the catch, the error, and prompts again.
PromptAgain ==
    /\ chat.at = "running"
    /\ AwaitSettled(chat.run)
    /\ chat' = [at |-> "prompt", run |-> chat.run,
                shown |-> IF pc[chat.run] = "returned" THEN "response" ELSE "error"]
    /\ UNCHANGED <<messages, config, pc, locals, runsStarted, callsRequested, dvars,
                   snapshot, entry>>

NextChat ==
    \/ \E text \in UserTexts : ChatMessage(text)
    \/ ChatReset
    \/ PromptAgain
    \/ \E r \in Runs : CompletionFails(r)
    \/ \E r \in Runs : ToolCallsResponse(r)
    \/ \E r \in Runs : FinalResponse(r)
    \/ \E r \in Runs : ToolReturns(r)

SpecChat == Init /\ [][NextChat]_vars

\* ------------------------------------------------- query() and the ask command
\* A query that lets the caller's options override its reset.
QueryOptionsCallerWins(given) == given

\* query(), line 234: { ...options, reset: true }.
QueryOptions(given) == [given EXCEPT !.reset = TRUE]

\* The options commander hands to the action of `ask`, part_002 lines 60-63:
\* a --no-reset option is true unless the flag is given.
CommanderOptions(noResetFlag) == [reset |-> ~noResetFlag]

\* askQuestion, part_002 line 192: options.reset !== false.
ShouldReset(given) == given.reset # FALSE

\* query(userMessage, options), lines 233-235, by a caller that awaits it.
Query(r, text, optReset) ==
    /\ NoRunActive
    /\ LET passed == QueryOptions([reset |-> optReset])
       IN \/ RunBegin(r, text, passed.reset)
          \/ \E why \in StartFailures : RunBeginThrows(r, passed.reset, why)
    /\ entry' = [via |-> "query", given |-> optReset]
    /\ UNCHANGED chat

\* The ask command, part_002 lines 183-200: one run() in a fresh process.
AskQuestion(r, text, noResetFlag) ==
    /\ runsStarted = 0
    /\ NoRunActive
    /\ RunBegin(r, text, ShouldReset(CommanderOptions(noResetFlag)))
    /\ entry' = [via |-> "ask", given |-> noResetFlag]
    /\ UNCHANGED chat

NextQuery ==
    \/ \E r \in Callers, text \in UserTexts, optReset \in BOOLEAN : Query(r, text, optReset)
    \/ \E r \in Callers, text \in UserTexts, flag \in BOOLEAN : AskQuestion(r, text, flag)
    \/ \E r \in Callers : CompletionFails(r)
    \/ \E r \in Callers : ToolCallsResponse(r)
    \/ \E r \in Callers : FinalResponse(r)
    \/ \E r \in Callers : ToolReturns(r)

SpecQuery == Init /\ [][NextQuery]_vars

\* ------------------------------------------------------ gmail_list_messages
DefaultMaxResults == 10    \* (args.maxResults as number) || 10
MaxResultsCap == 50        \* Math.min(..., 50)

\* A listing with no cap on the limit.
ListLimitUncapped(maxResults) ==
    IF ~maxResults.present \/ maxResults.value = 0
    THEN DefaultMaxResults ELSE maxResults.value

\* Math.min((args.maxResults as number) || 10, 50), line 276: an absent or
\* zero maxResults is falsy and gives the default.
ListLimit(maxResults) ==
    Min(IF ~maxResults.present \/ maxResults.value = 0
        THEN DefaultMaxResults ELSE maxResults.value,
        MaxResultsCap)

\* args.maxResults as the model may send it: absent, zero, and numbers below,
\* at and above the default and the cap.
MaxResultsValues ==
    {[present |-> FALSE, value |-> 0]}
        \cup {[present |-> TRUE, value |-> v] :
                v \in {0 - 1, 0, 1, DefaultMaxResults, MaxResultsCap - 1, MaxResultsCap,
                       MaxResultsCap + 1, 2 * MaxResultsCap}}

EmailIds == {"m1", "m2"}

\* result.messages of gmail.listMessages: the matches, in the service's order.
ListResults == UNION {[1..n -> EmailIds] : n \in 0..MaxListed}

\* One entry of the listing, lines 287-292 (number and id; the other fields are
\* copied from the message alike).
FormatSummary(i, id) == ToString(i) \o ". ID: " \o id

\* result.messages.map((email, i) => ...), line 284.
Summaries(found) == [i \in 1..Len(found) |-> [number |-> i, id |-> found[i]]]

RECURSIVE JoinSummaries(_)
\* summaries.join('\n\n'), line 296.
JoinSummaries(entries) ==
    IF entries = <<>> THEN ""
    ELSE IF Len(entries) = 1 THEN FormatSummary(entries[1].number, entries[1].id)
    ELSE FormatSummary(entries[1].number, entries[1].id) \o "\n\n"
            \o JoinSummaries(Tail(entries))

\* The text the gmail_list_messages branch returns, lines 280-296.
ListOutput(found) ==
    IF Len(found) = 0 THEN "No emails found matching your criteria."
    ELSE "Found " \o ToString(Len(found)) \o " emails:\n\n"
            \o JoinSummaries(Summaries(found))

\* executeGmailTool('gmail_list_messages', args) called directly, lines 249-264
\* and 274-297: the limit handed to gmail.listMessages, and the ToolResult.
InitList ==
    /\ messages = <<>>
    /\ config = [maxHistoryLength |-> 1]
    /\ pc = [r \in Runs |-> "idle"]
    /\ request = [r \in Runs |-> <<>>]
    /\ assistantMessage = [r \in Runs |-> NoMessage]
    /\ toolResults = [r \in Runs |-> <<>>]
    /\ toolResult = [r \in Runs |-> NoToolResult]
    /\ idx = [r \in Runs |-> 0]
    /\ toolCallCount = [r \in Runs |-> 0]
    /\ result = [r \in Runs |-> NoResult]
    /\ error = [r \in Runs |-> "none"]
    /\ nRequests = [r \in Runs |-> 0]
    /\ preTrim = [r \in Runs |-> <<>>]
    /\ baseLen = [r \in Runs |-> 0]
    /\ dispatched = [r \in Runs |-> <<>>]
    /\ completed = [r \in Runs |-> 0]
    /\ requested = [r \in Runs |-> 0]
    /\ runsStarted = 0
    /\ callsRequested = 0
    /\ dispatchIn \in [toolName : {"gmail_list_messages"},
                        args : [kind : {"object"}, maxResults : MaxResultsValues],
                        svc : [kind : {"ok"}, messages : ListResults]
                                \cup {[kind |-> "error", messages |-> <<>>]}]
    /\ dispatchOut = NoOutcome
    /\ snapshot = NoSnapshot
    /\ options = [r \in Runs |-> NoOptions]
    /\ params = [r \in Runs |-> NoParams]
    /\ invoked = [r \in Runs |-> <<>>]
    /\ chat = NoChat
    /\ entry = NoEntry

ListDispatch ==
    /\ dispatchOut.kind = "none"
    /\ dispatchOut' =
          [kind |-> "return",
           limit |-> ListLimit(dispatchIn.args.maxResults),
           listed |-> IF dispatchIn.svc.kind = "ok"
                      THEN Summaries(dispatchIn.svc.messages) ELSE <<>>,
           result |-> IF dispatchIn.svc.kind = "ok"
                      THEN ToolResultOk(ListOutput(dispatchIn.svc.messages))
                      ELSE ToolResultFailed("boom")]
    /\ UNCHANGED <<messages, config, pc, locals, runsStarted, callsRequested, dispatchIn,
                   snapshot, cvars>>

NextList == ListDispatch

SpecList == InitList /\ [][NextList]_vars

TypeOK ==
    /\ \A r \in Callers : pc[r] \in {"idle", "await", "tool", "returned", "threw"}
    /\ \A i \in 1..Len(messages) : messages[i].role \in {"user", "assistant", "tool"}

FairSpec ==
    /\ Spec
    /\ \A r \in Callers : WF_vars(ToolReturns(r)) /\ SF_vars(FinalResponse(r))

\* ------------------------------------------------------------------ claims
IsToolCallMsg(m) == m.role = "assistant" /\ Len(m.tool_calls) > 0
ToolMessagesFrom(history, from) ==
    {i \in (from + 1)..Len(history) : history[i].role = "tool"}

\* C1: when run() issues the request that follows a tool round, the history is
\* the history of the previous request, then the assistant message with its N
\* calls, then exactly N tool messages, the i-th answering the i-th call id.
C1_CallResultCorrelation ==
    [][\A r \in Callers :
        (pc[r] = "tool" /\ nRequests'[r] = nRequests[r] + 1) =>
            LET calls == assistantMessage[r].tool_calls
                N == Len(calls)
                before == Tail(request[r])
                at == Len(before) + 1
            IN /\ N >= 1
               /\ Len(messages') = at + N
               /\ SubSeq(messages', 1, Len(before)) = before
               /\ messages'[at] = AssistantMsg(assistantMessage[r].content, calls)
               /\ \A i \in 1..N :
                     /\ messages'[at + i].role = "tool"
                     /\ messages'[at + i].tool_call_id = calls[i].id
               /\ request'[r] = BuildMessages(messages')]_vars

C1_Witness ==
    \E r \in Callers :
        /\ pc[r] = "await"
        /\ nRequests[r] >= 2
        /\ Len(assistantMessage[r].tool_calls) >= 2
        /\ messages[Len(messages)].tool_call_id = assistantMessage[r].tool_calls[2].id

\* C2: every tool message of the history answers a call id of the nearest
\* preceding assistant message, with only tool messages in between.
C2_ToolMessagesAnswerPrecedingCalls ==
    \A i \in 1..Len(messages) :
        messages[i].role = "tool" =>
            \E j \in 1..(i - 1) :
                /\ IsToolCallMsg(messages[j])
                /\ \A k \in (j + 1)..(i - 1) : messages[k].role = "tool"
                /\ \E c \in 1..Len(messages[j].tool_calls) :
                      messages[j].tool_calls[c].id = messages[i].tool_call_id

\* C3 as stated: when the dispatcher is invoked for call i+1, the tool message
\* of call i is already in the history.
C3_ResultInHistoryBeforeNextCall ==
    \A r \in Callers :
        (pc[r] = "tool" /\ idx[r] >= 2) =>
            \E j \in ToolMessagesFrom(messages, baseLen[r]) :
                messages[j].tool_call_id = assistantMessage[r].tool_calls[idx[r] - 1].id

\* C3 amended: the calls run one at a time in the order given; while call i+1
\* is with the dispatcher the history still ends with the assistant message,
\* and the tool messages of calls 1..i wait, in call order, in the buffer.
C3_ResultsBufferedInOrder ==
    \A r \in Callers :
        pc[r] = "tool" =>
            LET calls == assistantMessage[r].tool_calls
            IN /\ idx[r] \in 1..Len(calls)
               /\ messages[Len(messages)] = AssistantMsg(assistantMessage[r].content, calls)
               /\ Len(toolResults[r]) = idx[r] - 1
               /\ \A i \in 1..(idx[r] - 1) :
                     /\ toolResults[r][i].role = "tool"
                     /\ toolResults[r][i].tool_call_id = calls[i].id
               /\ \A i \in 1..idx[r] :
                     dispatched[r][Len(dispatched[r]) - idx[r] + i] = calls[i].id

C3_Witness ==
    \E r \in Callers : pc[r] = "tool" /\ idx[r] = 3 /\ Len(toolResults[r]) = 2

\* C4: a tool call whose argument payload is no JSON does not make run() fail.
C4_MalformedArgumentsNotFatal ==
    \A r \in Callers : pc[r] = "threw" => error[r] # "SyntaxError"

\* C5: executeGmailTool returns a ToolResult and never raises, whatever the
\* tool name, the argument value and the outcome of the mail-service call.
C5_DispatcherTotal ==
    dispatchOut.kind # "none" =>
        /\ dispatchOut.kind = "return"
        /\ dispatchOut.result.success \in BOOLEAN
        /\ dispatchOut.result.success = (dispatchOut.result.error = Absent)

C5_Witness ==
    /\ dispatchOut.kind = "return"
    /\ dispatchIn.svc.kind = "value"
    /\ dispatchIn.toolName \in KnownTools
    /\ ~dispatchOut.result.success

\* C6: a failing completion call ends run() at once, without another request,
\* and leaves the history as it was when that request was built.
C6_CompletionFailureKeepsHistory ==
    [][\A r \in Callers :
        (pc[r] = "await" /\ pc'[r] = "threw" /\ error'[r] = "CompletionError") =>
            /\ messages' = messages
            /\ BuildMessages(messages') = request[r]
            /\ nRequests'[r] = nRequests[r]
            /\ Len(messages') >= baseLen[r]
            /\ messages'[baseLen[r]].role = "user"]_vars

C6_Witness ==
    \E r \in Callers :
        /\ pc[r] = "threw"
        /\ error[r] = "CompletionError"
        /\ nRequests[r] >= 2
        /\ Len(messages) > baseLen[r]

\* C7: a run whose first response asks for no tool returns after one request,
\* with toolCalls = 0, the history being the trimmed history that ends with
\* the user message, plus one assistant message without calls.
C7_NoToolCallsOneRoundTrip ==
    \A r \in Callers :
        (pc[r] = "returned" /\ requested[r] = 0) =>
            /\ nRequests[r] = 1
            /\ result[r].toolCalls = 0
            /\ Len(messages) = baseLen[r] + 1
            /\ BuildMessages(SubSeq(messages, 1, baseLen[r])) = request[r]
            /\ messages[baseLen[r]] = preTrim[r][Len(preTrim[r])]
            /\ messages[baseLen[r]].role = "user"
            /\ messages[Len(messages)].role = "assistant"
            /\ messages[Len(messages)].tool_calls = <<>>
            /\ ToolMessagesFrom(messages, baseLen[r]) = {}

C7_Witness ==
    \E r \in Callers :
        /\ pc[r] = "returned"
        /\ requested[r] = 0
        /\ Len(messages) >= 3

\* C8: when the first request is built the history has at most
\* 2 x maxHistoryLength entries and is the newest min(n, 2 x maxHistoryLength)
\* entries of the n-entry history that ends with the new user message.
C8_TrimKeepsNewest ==
    \A r \in Callers :
        (pc[r] = "await" /\ nRequests[r] = 1) =>
            LET n == Len(preTrim[r])
                keep == Min(n, 2 * config.maxHistoryLength)
            IN /\ Len(messages) <= 2 * config.maxHistoryLength
               /\ Len(messages) = keep
               /\ \A i \in 1..keep : messages[i] = preTrim[r][n - keep + i]
               /\ request[r] = BuildMessages(messages)

C8_Witness ==
    \E r \in Callers :
        /\ pc[r] = "await"
        /\ nRequests[r] = 1
        /\ Len(preTrim[r]) > 2 * config.maxHistoryLength
        /\ Len(messages) = 2 * config.maxHistoryLength

\* C9: run() returns only on a response without tool calls; as long as the
\* endpoint may ask for tools the loop takes them, whatever the number of
\* rounds so far; and if responses without tool calls are not withheld for
\* ever, every run ends.
C9_ReturnsOnlyWithoutToolCalls ==
    \A r \in Callers :
        /\ pc'[r] = "returned" /\ pc[r] # "returned" =>
              pc[r] = "await" /\ assistantMessage'[r].tool_calls = <<>>
        /\ (pc[r] = "await" /\ pc'[r] = "tool") =>
              /\ Len(assistantMessage'[r].tool_calls) > 0
              /\ messages'[Len(messages')].tool_calls = assistantMessage'[r].tool_calls

C9_NoIterationCap ==
    \A r \in Callers :
        (pc[r] = "await" /\ callsRequested < MaxToolCalls) => ENABLED ToolCallsResponse(r)

\* C9: the tool loop is left by returning only on a response without tool
\* calls, no round count stops it from taking a further tool round, and under
\* fairness of the response without tool calls every run ends.
C9_LoopExit ==
    /\ [][C9_ReturnsOnlyWithoutToolCalls]_vars
    /\ []C9_NoIterationCap
    /\ \A r \in Callers : (pc[r] \in {"await", "tool"}) ~> (pc[r] \in {"returned", "threw"})

C9_Witness ==
    \E r \in Callers : pc[r] = "returned" /\ nRequests[r] = MaxToolCalls + 1

\* C10: the toolCalls of the RunResult is the number of calls the dispatcher
\* executed in this run and the number of tool messages the run appended.
C10_ToolCallsCounted ==
    \A r \in Callers :
        pc[r] = "returned" =>
            /\ result[r].toolCalls = completed[r]
            /\ result[r].toolCalls = Len(dispatched[r])
            /\ result[r].toolCalls = Cardinality(ToolMessagesFrom(messages, baseLen[r]))

C10_Witness ==
    \E r \in Callers :
        /\ pc[r] = "returned"
        /\ result[r].toolCalls = 1
        /\ nRequests[r] = 2
        /\ result[r].response = "You have 3 unread emails."

\* C11: when run() returns, the history ends with an assistant message without
\* tool calls whose content is RunResult.response: the text of the last
\* completion, or the fallback sentence when that text is empty or missing or
\* the response has no choice; the response is never empty.
C11_FinalAnswerStored ==
    \A r \in Callers :
        pc[r] = "returned" =>
            LET last == messages[Len(messages)]
                text == assistantMessage[r].content
            IN /\ last.role = "assistant"
               /\ last.tool_calls = <<>>
               /\ last.content = result[r].response
               /\ assistantMessage[r].tool_calls = <<>>
               /\ (assistantMessage[r].choice /\ text \notin {"", Absent}) =>
                     result[r].response = text
               /\ (~assistantMessage[r].choice \/ text \in {"", Absent}) =>
                     result[r].response = FallbackResponse
               /\ result[r].response \notin {"", Absent}

C11_Witness ==
    \E r \in Callers :
        /\ pc[r] = "returned"
        /\ assistantMessage[r].choice
        /\ assistantMessage[r].content = ""
        /\ result[r].response = FallbackResponse
        /\ nRequests[r] >= 2

\* C12: executeGmailTool with a name that is no known tool identifier returns
\* success = false and output "Unknown tool: <name>", and calls no mail-service
\* operation.
C12_UnknownToolFails ==
    (dispatchOut.kind # "none" /\ dispatchIn.toolName \notin KnownTools) =>
        /\ dispatchOut.kind = "return"
        /\ dispatchOut.result.success = FALSE
        /\ dispatchOut.result.output = "Unknown tool: " \o dispatchIn.toolName
        /\ ServiceCalls(dispatchIn.toolName, dispatchIn.args) = 0

\* C13: when the mail-service operation of a known tool fails with message m
\* the ToolResult is {success: false, output: "Error: " + m, error: m}; when it
\* succeeds the ToolResult has success = true and no error; success is false
\* exactly when error is set.
C13_FailureResultShape ==
    dispatchOut.kind # "none" =>
        LET res == dispatchOut.result
            called == ServiceCalls(dispatchIn.toolName, dispatchIn.args) = 1
        IN /\ (called /\ dispatchIn.svc.kind = "error") =>
                 res = [success |-> FALSE,
                        output |-> "Error: " \o dispatchIn.svc.message,
                        error |-> dispatchIn.svc.message]
           /\ (called /\ dispatchIn.svc.kind = "ok") =>
                 res.success /\ res.error = Absent
           /\ res.success = FALSE <=> res.error # Absent

C13_Witness ==
    /\ dispatchOut.kind = "return"
    /\ dispatchIn.toolName = "gmail_archive_message"
    /\ dispatchIn.args = JsonObject
    /\ dispatchIn.svc = SvcError("boom")
    /\ dispatchOut.result.output = "Error: boom"

\* C14: when the dispatcher reports a failure for a call, run() goes on: the
\* tool message with the call's id and the failure's output text is kept, the
\* next call of the same assistant message is taken up, and after the last
\* call the tool messages are in the history and the next request is issued.
C14_FailingToolNotFatal ==
    [][\A r \in Callers :
        (pc[r] = "tool" /\ completed'[r] = completed[r] + 1 /\ ~toolResult'[r].success) =>
            LET call == assistantMessage[r].tool_calls[idx[r]]
                msg == ToolMsg(call.id, toolResult'[r].output)
            IN /\ toolResults'[r][Len(toolResults'[r])] = msg
               /\ pc'[r] \in {"tool", "await"}
               /\ pc'[r] = "tool" => idx'[r] = idx[r] + 1
               /\ pc'[r] = "await" =>
                     /\ messages'[Len(messages')] = msg
                     /\ nRequests'[r] = nRequests[r] + 1]_vars

\* C15: getConversationState() returns a defensive copy: an edit of the
\* snapshot's message list changes neither the store's history nor its length,
\* and as long as its holder has not edited it, a snapshot reads as the history
\* did when it was taken, whatever the store has appended since.
C15_SnapshotIsDefensiveCopy ==
    [][/\ (~snapshot.edited /\ snapshot'.edited) =>
              /\ messages' = messages
              /\ Len(messages') = Len(messages)
       /\ (snapshot.taken /\ ~snapshot'.edited) =>
              SnapshotMessages' = snapshot.atTake]_vars

\* C16: resetConversation() leaves the store empty whatever it held, and the
\* first completion request of a run() called with reset: true is exactly the
\* system message followed by the new user message, which is then all the
\* history holds.
C16_ResetStartsAfresh ==
    [][/\ ResetConversation => (messages' = <<>> /\ Len(messages') = 0)
       /\ \A r \in Callers :
             (pc[r] \in Resting /\ pc'[r] = "await" /\ options'[r].reset) =>
                 \E text \in UserTexts :
                    /\ nRequests'[r] = 1
                    /\ request'[r] = <<SystemMsg, UserMsg(text)>>
                    /\ messages' = <<UserMsg(text)>>]_vars

\* A second run, called with reset: true after a run that went through a tool
\* round, has its first request in flight.
C16_Witness ==
    \E r \in Callers :
       /\ pc[r] = "await"
       /\ options[r].reset
       /\ runsStarted = 2
       /\ callsRequested > 0
       /\ request[r] = <<SystemMsg, UserMsg("hello")>>

\* C17: after the trim step of a run the history only grows at its end: every
\* step of the run keeps the history it found as a prefix of the history it
\* leaves, and the trimmed history of the start stays the first baseLen
\* messages, so the length is baseLen plus the messages appended, in order.
C17_AppendOnlyAfterTrim ==
    [][\A r \in Callers :
          pc[r] \in {"await", "tool"} =>
             /\ Len(messages') >= Len(messages)
             /\ SubSeq(messages', 1, Len(messages)) = messages
             /\ baseLen'[r] = baseLen[r]
             /\ SubSeq(messages', 1, baseLen[r]) =
                   TrimHistory(preTrim[r], config.maxHistoryLength)]_vars

\* A run whose start trimmed the history has since appended an assistant
\* message and its tool messages and sent its second request.
C17_Witness ==
    \E r \in Callers :
       /\ pc[r] = "await"
       /\ nRequests[r] = 2
       /\ Len(preTrim[r]) > baseLen[r]
       /\ Len(messages) >= baseLen[r] + 2

\* C18: while a completion request is in flight its message list is the system
\* message followed by the whole history as it stands, and it carries the full
\* tool catalog with tool_choice auto; no message of the history ever has the
\* system role.
C18_RequestIsSystemPlusHistory ==
    /\ \A i \in 1..Len(messages) : messages[i].role # "system"
    /\ \A r \in Callers :
          pc[r] = "await" =>
             /\ Len(request[r]) = Len(messages) + 1
             /\ request[r][1] = [role |-> "system", content |-> SystemPrompt,
                                 tool_calls |-> <<>>, tool_call_id |-> NoId]
             /\ \A i \in 1..Len(messages) : request[r][i + 1] = messages[i]
             /\ params[r].tools = GMAIL_TOOLS
             /\ Len(params[r].tools) = 9
             /\ params[r].tool_choice = "auto"

\* The request after a tool round is in flight: system message, user message,
\* the assistant message with its calls and their tool messages.
C18_Witness ==
    \E r \in Callers :
       /\ pc[r] = "await"
       /\ nRequests[r] = 2
       /\ Len(request[r]) >= 4
       /\ request[r][Len(request[r])].role = "tool"
       /\ params[r] = CreateParams

\* C19: a run moves Idle -> AwaitingCompletion -> (ExecutingTools ->
\* AwaitingCompletion)* -> Done: it starts executing tools only from an awaited
\* completion that asked for at least one call, it is done only from an awaited
\* completion that asked for none, executing tools always leads back to
\* awaiting a completion, and a tool execution is in flight exactly while the
\* run is executing tools, one at a time and never beside a completion request.
C19_RunStateMachine ==
    [][\A r \in Callers :
          /\ (pc[r] # "tool" /\ pc'[r] = "tool") =>
                 /\ pc[r] = "await"
                 /\ Len(assistantMessage'[r].tool_calls) >= 1
          /\ (pc[r] # "returned" /\ pc'[r] = "returned") =>
                 /\ pc[r] = "await"
                 /\ assistantMessage'[r].tool_calls = <<>>
          /\ (pc[r] \in Resting /\ pc'[r] \notin Resting) => pc'[r] = "await"
          /\ pc[r] = "tool" => pc'[r] \in {"tool", "await"}
          /\ Len(dispatched'[r]) - completed'[r] = (IF pc'[r] = "tool" THEN 1 ELSE 0)]_vars

\* C20: the tool catalog and the dispatcher are in sync. The names of
\* GMAIL_TOOLS are pairwise distinct and are exactly the names the dispatcher
\* has a branch for; getToolByName finds a tool exactly for the names the
\* dispatcher does not send to its default branch, the tool found carries the
\* very name asked for, and a name that differs in case only is found by
\* neither.
C20_CatalogMatchesDispatcher ==
    /\ \A i, j \in 1..Len(GMAIL_TOOLS) :
          GMAIL_TOOLS[i].name = GMAIL_TOOLS[j].name => i = j
    /\ {getToolNames[i] : i \in 1..Len(getToolNames)} = KnownTools
    /\ dispatchOut.kind # "none" =>
          LET name == dispatchIn.toolName
              tool == getToolByName(name)
              byDefault == dispatchOut.result = ToolResultOk("Unknown tool: " \o name)
          IN /\ dispatchOut.kind = "return"
             /\ (tool # Undefined) <=> ~byDefault
             /\ (tool # Undefined) <=> (\E i \in 1..Len(getToolNames) : getToolNames[i] = name)
             /\ (tool # Undefined) => tool.name = name
             /\ ServiceCalls(name, JsonObject) = (IF tool # Undefined THEN 1 ELSE 0)

\* A name that differs from a declared one in case only was dispatched: no
\* tool is found for it and the dispatcher took its default branch.
C20_Witness ==
    /\ dispatchOut.kind = "return"
    /\ dispatchIn.toolName = "gmail_Get_Unread_Count"
    /\ getToolByName(dispatchIn.toolName) = Undefined
    /\ getToolByName(ToLowerCase(dispatchIn.toolName)).name = "gmail_get_unread_count"
    /\ dispatchOut.result.output = "Unknown tool: gmail_Get_Unread_Count"

\* C21: within a run the mail service is invoked at most once for each tool
\* call: the operations invoked are, in order, those of the calls whose
\* dispatch has settled, one each, whether the operation failed or not; no
\* call id occurs twice and no operation is invoked that no call asked for.
C21_OneInvocationPerCall ==
    \A r \in Callers :
       /\ Len(invoked[r]) <= completed[r]
       /\ Len(invoked[r]) <= Len(dispatched[r])
       /\ \A i \in 1..Len(invoked[r]) :
             /\ invoked[r][i].id = dispatched[r][i]
             /\ invoked[r][i].op \in {ServiceOp(k.name) : k \in RunCallKinds}
             /\ \A j \in 1..Len(invoked[r]) :
                   invoked[r][i].id = invoked[r][j].id => i = j

\* A run has returned after two tool calls: the archive operation of the
\* first failed, that of the second went through.
C21_Witness ==
    \E r \in Callers :
       /\ pc[r] = "returned"
       /\ Len(invoked[r]) = 2
       /\ invoked[r][1].op = "archiveMessage"
       /\ ~invoked[r][1].ok
       /\ invoked[r][2].ok
       /\ invoked[r][1].id # invoked[r][2].id

\* C22: run() does not guard against overlapping invocations: whenever one
\* invocation is suspended on a completion or on a tool call, another run()
\* can start and push its user message onto the shared history.
C22_RunIsUnguarded ==
    \A r, q \in Runs :
       (r # q /\ pc[q] \in {"await", "tool"} /\ pc[r] = "idle"
            /\ runsStarted < MaxRuns) =>
          ENABLED RunOverlapping(r, "hello", FALSE)

\* Two invocations have interleaved: the user message of one lies between the
\* other's assistant message with a tool call and the tool message answering
\* that call.
C22_Witness ==
    \E i \in 1..Len(messages) :
       /\ i + 2 <= Len(messages)
       /\ IsToolCallMsg(messages[i])
       /\ messages[i + 1].role = "user"
       /\ messages[i + 2].role = "tool"
       /\ messages[i + 2].tool_call_id = messages[i].tool_calls[1].id
       /\ runsStarted = 2

\* C23: a failed run() leaves the history intact. A call that fails before its
\* first request (no API key, configuration not loadable) leaves the store as
\* it found it, also when called with reset: true; a call whose completion
\* request fails leaves the store as it was when the request was sent.
C23_FailedRunKeepsHistory ==
    [][\A r \in Callers :
          /\ (pc[r] \in Resting /\ runsStarted' = runsStarted + 1 /\ pc'[r] = "threw") =>
                 messages' = messages
          /\ (pc[r] = "await" /\ pc'[r] = "threw" /\ error'[r] = "CompletionError") =>
                 messages' = messages]_vars

\* C24: the history stays bounded over any sequence of runs: right after the
\* trim of a run it holds at most 2 x maxHistoryLength messages, and after a
\* run that returned without tool calls at most 2 x maxHistoryLength + 1.
C24_HistoryBounded ==
    \A r \in Callers :
       /\ baseLen[r] <= 2 * config.maxHistoryLength
       /\ (pc[r] = "await" /\ nRequests[r] = 1) =>
             /\ Len(messages) = baseLen[r]
             /\ Len(messages) <= 2 * config.maxHistoryLength
       /\ (pc[r] = "returned" /\ result[r].toolCalls = 0 /\ nRequests[r] = 1) =>
             Len(messages) <= 2 * config.maxHistoryLength + 1

\* A later run has trimmed the history to the bound and returned without tool
\* calls: the history holds 2 x maxHistoryLength + 1 messages.
C24_Witness ==
    \E r \in Callers :
       /\ pc[r] = "returned"
       /\ result[r].toolCalls = 0
       /\ Len(preTrim[r]) > baseLen[r]
       /\ Len(messages) = 2 * config.maxHistoryLength + 1

\* C25: no executed tool call is lost from the history: when run() has ended,
\* by returning or by throwing, every call that was handed to the dispatcher
\* has a tool message with its call id among the messages this run appended.
C25_ExecutedCallsRecorded ==
    \A r \in Callers :
       pc[r] \in {"returned", "threw"} =>
          \A i \in 1..Len(dispatched[r]) :
             \E k \in (baseLen[r] + 1)..Len(messages) :
                /\ messages[k].role = "tool"
                /\ messages[k].tool_call_id = dispatched[r][i]

\* C26: the user message run() appends survives that run's trim: the first
\* completion request of every run ends with the user message of this call,
\* as does the trimmed history, whatever the history held before.
C26_UserMessageSurvivesTrim ==
    \A r \in Callers :
       (pc[r] = "await" /\ nRequests[r] = 1) =>
          LET sent == request[r][Len(request[r])]
          IN /\ Len(preTrim[r]) >= 1
             /\ sent = preTrim[r][Len(preTrim[r])]
             /\ sent.role = "user"
             /\ sent.content \in UserTexts
             /\ messages[Len(messages)] = sent

\* A run whose trim dropped older messages has its first request in flight.
C26_Witness ==
    \E r \in Callers :
       /\ pc[r] = "await"
       /\ nRequests[r] = 1
       /\ Len(preTrim[r]) > baseLen[r]
       /\ baseLen[r] = 2 * config.maxHistoryLength
       /\ request[r][Len(request[r])] = UserMsg("hello")

\* The messages a run has appended: from its user message to the end.
AppendedBy(r) == SubSeq(messages, baseLen[r], Len(messages))

\* C27: after a run() that returns, the messages it appended read user,
\* (assistant with calls, its tool messages)*, assistant without calls: every
\* assistant message with n tool calls is followed by exactly n tool messages
\* carrying the ids of its calls, in order, and then by an assistant message.
C27_TurnIsWellFormed ==
    \A r \in Callers :
       pc[r] = "returned" =>
          LET seg == AppendedBy(r)
              n == Len(seg)
          IN /\ n >= 2
             /\ seg[1].role = "user"
             /\ seg[n].role = "assistant" /\ seg[n].tool_calls = <<>>
             /\ \A i \in 2..n : seg[i].role \in {"assistant", "tool"}
             /\ \A i \in 1..(n - 1) : seg[i].role = "assistant" => IsToolCallMsg(seg[i])
             /\ \A i \in 1..n :
                   IsToolCallMsg(seg[i]) =>
                      LET calls == seg[i].tool_calls
                      IN /\ i + Len(calls) < n
                         /\ \A j \in 1..Len(calls) :
                               /\ seg[i + j].role = "tool"
                               /\ seg[i + j].tool_call_id = calls[j].id
                         /\ seg[i + Len(calls) + 1].role = "assistant"
             /\ \A i \in 1..n :
                   seg[i].role = "tool" =>
                      \E a \in 1..(i - 1) :
                         /\ IsToolCallMsg(seg[a])
                         /\ i - a <= Len(seg[a].tool_calls)

\* A run has returned after two tool rounds, the first with two calls.
C27_Witness ==
    \E r \in Callers :
       /\ pc[r] = "returned"
       /\ nRequests[r] = 3
       /\ result[r].toolCalls = 3
       /\ Len(AppendedBy(r)) = 7

\* C28: the interactive chat serializes its use of the store. A run() starts
\* and a /reset happens only while no run() is in flight; the chat prompts
\* again only when the run it awaited has resolved or rejected, it then leaves
\* the history as the run left it, and it reports a rejected run as an error.
C28_ChatSerializesRuns ==
    [][/\ runsStarted' = runsStarted + 1 => \A q \in Runs : pc[q] \in Resting
       /\ (messages # <<>> /\ messages' = <<>>) => \A q \in Runs : pc[q] \in Resting
       /\ (chat.at = "running" /\ chat'.at = "prompt") =>
             /\ pc[chat.run] \in {"returned", "threw"}
             /\ messages' = messages
             /\ pc[chat.run] = "threw" => chat'.shown = "error"
             /\ pc[chat.run] = "returned" => chat'.shown = "response"
       /\ chat'.at = "prompt" => \A q \in Runs : pc'[q] \in Resting]_vars

\* The second message of a chat failed at its completion request: the error
\* is reported, the prompt is out again and the history still holds the first
\* turn and the new user message.
C28_Witness ==
    /\ chat.at = "prompt"
    /\ chat.shown = "error"
    /\ runsStarted = 2
    /\ pc[chat.run] = "threw"
    /\ error[chat.run] = "CompletionError"
    /\ Len(messages) >= 3
    /\ messages[Len(messages)].role = "user"

\* C29: query() always resets before running, whatever reset option it was
\* given: its first completion request is the system message and the new
\* message, and after a query without tool calls the history holds exactly
\* the user message and the answer. The ask command passes reset: true to
\* run() unless --no-reset was given.
C29_QueryAlwaysResets ==
    \A r \in Callers :
       /\ (entry.via = "query" /\ pc[r] = "await" /\ nRequests[r] = 1) =>
             /\ options[r].reset
             /\ \E text \in UserTexts :
                   /\ request[r] = <<SystemMsg, UserMsg(text)>>
                   /\ messages = <<UserMsg(text)>>
       /\ (entry.via = "query" /\ pc[r] = "returned" /\ result[r].toolCalls = 0) =>
             /\ Len(messages) = 2
             /\ messages[1].role = "user"
             /\ messages[2] = AssistantMsg(result[r].response, <<>>)
       /\ (entry.via = "ask" /\ pc[r] = "await" /\ nRequests[r] = 1) =>
             options[r].reset = ~entry.given

\* A second query, called with reset: false after a first one that went
\* through a tool round, has returned without tool calls: two messages.
C29_Witness ==
    \E r \in Callers :
       /\ entry.via = "query"
       /\ ~entry.given
       /\ runsStarted = 2
       /\ callsRequested > 0
       /\ pc[r] = "returned"
       /\ result[r].toolCalls = 0
       /\ Len(messages) = 2

\* C30: for gmail_list_messages the limit handed to the mail service is 10 when
\* maxResults is absent or 0 and never exceeds 50; the listing numbers the
\* matches 1..N in the order the service returned them and reports N as the
\* count, and is the fixed no-results sentence when N = 0.
C30_ListLimitAndNumbering ==
    (dispatchOut.kind = "return" /\ dispatchIn.toolName = "gmail_list_messages") =>
       LET asked == dispatchIn.args.maxResults
           found == dispatchIn.svc.messages
           N == Len(found)
       IN /\ (~asked.present \/ asked.value = 0) => dispatchOut.limit = 10
          /\ dispatchOut.limit <= 50
          /\ (asked.present /\ asked.value \in 1..50) => dispatchOut.limit = asked.value
          /\ dispatchIn.svc.kind = "ok" =>
                /\ dispatchOut.result.success
                /\ Len(dispatchOut.listed) = N
                /\ \A i \in 1..N :
                      /\ dispatchOut.listed[i].number = i
                      /\ dispatchOut.listed[i].id = found[i]
                /\ N = 0 =>
                      dispatchOut.result.output = "No emails found matching your criteria."
                /\ N = 1 =>
                      dispatchOut.result.output =
                         "Found 1 emails:\n\n1. ID: " \o found[1]
                /\ N = 2 =>
                      dispatchOut.result.output =
                         "Found 2 emails:\n\n1. ID: " \o found[1]
                             \o "\n\n2. ID: " \o found[2]

\* A listing asked for 100 results was handed on with limit 50 and came back
\* with two matches, numbered in the service's order.
C30_Witness ==
    /\ dispatchOut.kind = "return"
    /\ dispatchIn.toolName = "gmail_list_messages"
    /\ dispatchIn.args.maxResults = [present |-> TRUE, value |-> 100]
    /\ dispatchOut.limit = 50
    /\ dispatchIn.svc.kind = "ok"
    /\ dispatchIn.svc.messages = <<"m2", "m1">>
    /\ dispatchOut.result.output = "Found 2 emails:\n\n1. ID: m2\n\n2. ID: m1"

====
